---- MODULE Spec2Model ----
(***************************************************************************)
(* A model of decoden's numerical core (src/decoden/functions.py):         *)
(*   extract_mixing_matrix, extract_signal, run_HSR, run_HSR_replicates.   *)
(*                                                                         *)
(* Each function is a small state machine whose program counter walks the  *)
(* statements of the source.  One specification per function:              *)
(*   SpecSignal  extract_signal                                            *)
(*   SpecMM      extract_mixing_matrix                                     *)
(*   SpecHSR     run_HSR and run_HSR_replicates                            *)
(* and Spec is their union.  The variables of a function that is not       *)
(* running keep their idle value.                                          *)
(*                                                                         *)
(* sklearn's solvers are library code.  A factorization result is kept     *)
(* symbolically: each fitted row or coefficient records the data it was    *)
(* fitted from, so that order, shape and provenance are what the code      *)
(* makes them.                                                             *)
(***************************************************************************)
EXTENDS Integers, Sequences, FiniteSets, TLC

\* ------------------------------------------------------------------ bounds
MaxRows == 4      \* rows of the coverage matrix given to extract_signal
MaxChunk == 5     \* largest chunk_size
MaxComp == 2      \* rows of the mixing matrix given to extract_signal
RngMod == 3       \* number of states of numpy's global generator

MaxBins == 3      \* bins of the signal matrix given to run_HSR
MaxTrainRows == 3 \* rows of the coverage matrix given to extract_mixing_matrix

Seeds == {0, 1}
RowVals == {0, 1}
Thresholds == {0, 1}

\* ------------------------------------------------------------ python helpers
Min(a, b) == IF a < b THEN a ELSE b

\* range(start, stop, step) for step > 0, as a sequence
PyRange(start, stop, step) ==
  LET n == IF stop <= start THEN 0 ELSE (stop - start + step - 1) \div step
  IN  [k \in 1..n |-> start + (k - 1) * step]

\* seq[st:end] for 0 <= st, 0 <= end: python clamps both to len(seq)
PySlice(seq, st, end) ==
  SubSeq(seq, Min(st, Len(seq)) + 1, Min(end, Len(seq)))

\* numpy.split(ary, indices): div_points = [0] + indices + [len(ary)],
\* section i is ary[div_points[i]:div_points[i+1]]
NpSplit(seq, indices) ==
  LET div == <<0>> \o indices \o <<Len(seq)>>
  IN  [i \in 1..(Len(indices) + 1) |-> PySlice(seq, div[i], div[i + 1])]

RECURSIVE Flatten(_)
Flatten(blocks) ==
  IF blocks = <<>> THEN <<>> ELSE Head(blocks) \o Flatten(Tail(blocks))

RECURSIVE FlattenReversed(_)
FlattenReversed(blocks) ==
  IF blocks = <<>> THEN <<>> ELSE FlattenReversed(Tail(blocks)) \o Head(blocks)

\* numpy.vstack(list of blocks): rows of the blocks, in list order
NpVstack(blocks) == Flatten(blocks)

\* ------------------------------------------------------------- the variables
VARIABLES
  fn,          \* the function being run: "signal", "mm", "mm_shared", "hsr"
  seed,        \* the seed argument
  \* extract_signal
  sData,       \* data_df.values: sequence of rows (a row is its content)
  sK,          \* len(mmatrix)
  sNCond,      \* len(conditions_list)
  sChunkSize,  \* chunk_size
  sRng,        \* state of numpy's global generator (np.random)
  sPc,         \* "start", "loop", "stack", "done", "error"
  sChunks,     \* the list np.split returned: chunks of row positions
  sCi,         \* position in sChunks of the chunk the loop is at
  sProcessed,  \* processed_W: list of ck_W blocks
  sCalls,      \* arguments of the non_negative_factorization calls so far
  sOut,        \* the returned frame (rows), or <<>>
  sRun,        \* 1 on the first call, 2 on the repeated call
  sPrev,       \* what the first call returned and initialised
  \* extract_mixing_matrix
  mCols,       \* data_df.columns: sequence of sample names
  mData,       \* data_df.values: sequence of rows, a row a sequence of values
  mConds,      \* conditions_list
  mCounts,     \* conditions_counts_ref: condition label -> replicate count
  mThreshold,  \* control_cov_threshold
  mNTrain,     \* n_train_bins
  mPc,         \* "start", "fit_control", "fit_treat", "assemble", "loop",
               \* "frame", "return", "returned", "error"
  mErr,        \* the statement that raised, when mPc = "error"
  mTrain,      \* train_data: rows [idx |-> row label, row |-> values]
  mCalls,      \* the factorization calls made so far
  mCoefs,      \* H_unspec_coefs: the sample each coefficient was fitted for
  mSpecific,   \* specific_data_mat, per column: the data column and the
               \* coefficient subtracted from it
  mMatrix,     \* mixing_matrix (rows of entries)
  mIx,         \* ix
  mI,          \* i, the number of treatment conditions already fitted
  \* run_HSR and run_HSR_replicates
  hVariant,    \* "pooled" (run_HSR) or "replicates" (run_HSR_replicates)
  hIndex,      \* the bin index of wmat: "int" (integer labels 0..B-1) or
               \* "labels" (any other labels, such as genomic coordinates)
  hCtrl,       \* wmat.loc[:, control_condition], per bin
  hMask,       \* bl_mask, per bin
  hCols,       \* pooled: the treatment conditions; replicates: replicates.columns
  hNControl,   \* conditions_counts_ref[control_condition]
  hBg,         \* mmat.iloc[0, :], the background row of the mixing matrix
  hPc,         \* "start", "loop", "emitted", "done", "error"
  hI,          \* i of the enumerate
  hCtrlT,      \* control_transf: [arg |-> what np.log was given, log |-> its value]
  hCur,        \* the treatment of this iteration: name, raw column, coefficient
  hTreatT,     \* treatment_transf, as hCtrlT
  hFit,        \* what the iteration computed for and handed to LinearRegression
  hOut,        \* log_pred and log of track of this iteration, per bin
  hOutCols     \* the columns of out_df

varsSig == <<sData, sK, sNCond, sChunkSize, sRng, sPc, sChunks, sCi,
             sProcessed, sCalls, sOut, sRun, sPrev>>
varsMM == <<mCols, mData, mConds, mCounts, mThreshold, mNTrain, mPc, mErr,
            mTrain, mCalls, mCoefs, mSpecific, mMatrix, mIx, mI>>
varsHSR == <<hVariant, hIndex, hCtrl, hMask, hCols, hNControl, hBg, hPc, hI,
             hCtrlT, hCur, hTreatT, hFit, hOut, hOutCols>>
vars == <<fn, seed, varsSig, varsMM, varsHSR>>

\* the idle values of a function that is not the one being run
IdleSignal ==
  /\ sData = <<>> /\ sK = 0 /\ sNCond = 0 /\ sChunkSize = 0 /\ sRng = 0
  /\ sPc = "idle" /\ sChunks = <<>> /\ sCi = 0 /\ sProcessed = <<>>
  /\ sCalls = <<>> /\ sOut = <<>> /\ sRun = 0 /\ sPrev = <<>>

IdleMM ==
  /\ mCols = <<>> /\ mData = <<>> /\ mConds = <<>> /\ mCounts = <<>>
  /\ mThreshold = 0 /\ mNTrain = 0 /\ mPc = "idle" /\ mErr = "none"
  /\ mTrain = <<>> /\ mCalls = <<>> /\ mCoefs = <<>> /\ mSpecific = <<>>
  /\ mMatrix = <<>> /\ mIx = 0 /\ mI = 0

NoFit == [err |-> "none", med2C |-> 0, med2T |-> 0, fitIxs |-> <<>>,
          xBins |-> <<>>, yBins |-> <<>>, X |-> <<>>, y |-> <<>>]
NoCur == [name |-> <<>>, raw |-> <<>>, coefOf |-> <<>>, coef |-> 0]
NoOut == [den |-> 1, num |-> 0, logPred |-> <<>>, logTrack |-> <<>>]

IdleHSR ==
  /\ hVariant = "none" /\ hIndex = "none" /\ hCtrl = <<>> /\ hMask = <<>>
  /\ hCols = <<>> /\ hNControl = 0 /\ hBg = <<>> /\ hPc = "idle" /\ hI = 0
  /\ hCtrlT = <<>> /\ hCur = NoCur /\ hTreatT = <<>> /\ hFit = NoFit
  /\ hOut = NoOut /\ hOutCols = <<>>

\* ----------------------------------------------------------- extract_signal
\* range(chunk_size, len(data_df)+chunk_size, chunk_size)
SplitIndices(n, c) == PyRange(c, n + c, c)

\* the chunks of row positions 1..n that line 173 iterates over
Chunks(n, c) == NpSplit([k \in 1..n |-> k], SplitIndices(n, c))

\* line 174: if len(ck) < 1
ChunkIsEmptyOffByOne(ck) == Len(ck) < 2
ChunkIsEmpty(ck) == Len(ck) < 1

\* line 177: np.random.uniform(0, 0.1, size=(rows, k)) drawn from state s
\* of numpy's global generator, which steps once per draw: entry (j, c) is
\* the (j-1)*k + c - th draw
Uniform(s, rows, k) ==
  [j \in 1..rows |-> [c \in 1..k |-> (s + (j - 1) * k + (c - 1)) % RngMod]]

RngAfter(s, rows, k) == (s + rows * k) % RngMod

\* lines 178-181: non_negative_factorization(ck, W, H, init='custom',
\* update_H=False): row j of the result is fitted from row j of ck,
\* starting from row j of W, against the fixed H
Project(ck, W, k) ==
  [j \in 1..Len(ck) |-> [src |-> ck[j], x |-> sData[ck[j]], w0 |-> W[j], k |-> k]]

\* line 183
StackProcessedReversed(blocks) == FlattenReversed(blocks)
StackProcessed(blocks) == NpVstack(blocks)

RECURSIVE SeqsOver(_, _)
SeqsOver(S, n) ==
  IF n = 0 THEN {<<>>}
  ELSE {Append(s, v) : s \in SeqsOver(S, n - 1), v \in S}

InitSignal ==
  /\ fn = "signal"
  /\ seed \in Seeds
  /\ \E n \in 0..MaxRows : sData \in SeqsOver(RowVals, n)
  /\ sK \in 1..MaxComp
  /\ sNCond \in 1..MaxComp
  /\ sChunkSize \in 1..MaxChunk
  /\ sRng \in 0..(RngMod - 1)
  /\ sPc = "start"
  /\ sChunks = <<>>
  /\ sCi = 0
  /\ sProcessed = <<>>
  /\ sCalls = <<>>
  /\ sOut = <<>>
  /\ sRun = 1
  /\ sPrev = <<>>
  /\ IdleMM /\ IdleHSR

\* line 172-173: processed_W = []; the split
SigSplit ==
  /\ fn = "signal" /\ sPc = "start"
  /\ sChunks' = Chunks(Len(sData), sChunkSize)
  /\ sCi' = 1
  /\ sProcessed' = <<>>
  /\ sCalls' = <<>>
  /\ sPc' = "loop"
  /\ UNCHANGED <<fn, seed, sData, sK, sNCond, sChunkSize, sRng, sOut, sRun, sPrev>>
  /\ UNCHANGED <<varsMM, varsHSR>>

\* lines 177-182: one non-empty chunk (mmatrix has the columns of data_df)
SigChunk ==
  /\ fn = "signal" /\ sPc = "loop"
  /\ sCi <= Len(sChunks)
  /\ ~ChunkIsEmpty(sChunks[sCi])
  /\ LET ck == sChunks[sCi]
         W  == Uniform(sRng, Len(ck), sK)
     IN  /\ sCalls' = Append(sCalls, [ck |-> ck, W |-> W])
         /\ sProcessed' = Append(sProcessed, Project(ck, W, sK))
         /\ sRng' = RngAfter(sRng, Len(ck), sK)
  /\ sCi' = sCi + 1
  /\ UNCHANGED <<fn, seed, sData, sK, sNCond, sChunkSize, sPc, sChunks, sOut, sRun, sPrev>>
  /\ UNCHANGED <<varsMM, varsHSR>>

\* lines 173-176: the loop ends, by the break or by exhausting the list
SigExit ==
  /\ fn = "signal" /\ sPc = "loop"
  /\ \/ sCi > Len(sChunks)
     \/ /\ sCi <= Len(sChunks)
        /\ ChunkIsEmpty(sChunks[sCi])
  /\ sPc' = "stack"
  /\ UNCHANGED <<fn, seed, sData, sK, sNCond, sChunkSize, sRng, sChunks, sCi,
                 sProcessed, sCalls, sOut, sRun, sPrev>>
  /\ UNCHANGED <<varsMM, varsHSR>>

\* lines 183-186: vstack raises on an empty list; DataFrame raises when
\* the block is not len(index) x len(conditions_list)
SigStack ==
  /\ fn = "signal" /\ sPc = "stack"
  /\ IF sProcessed = <<>> \/ sK # sNCond
       \/ Len(StackProcessed(sProcessed)) # Len(sData)
     THEN sPc' = "error" /\ sOut' = <<>>
     ELSE sPc' = "done" /\ sOut' = StackProcessed(sProcessed)
  /\ UNCHANGED <<fn, seed, sData, sK, sNCond, sChunkSize, sRng, sChunks, sCi,
                 sProcessed, sCalls, sRun, sPrev>>
  /\ UNCHANGED <<varsMM, varsHSR>>

\* the caller runs extract_signal again on the same arguments; numpy's
\* global generator is wherever the process left it (or freshly seeded
\* from the operating system in a new process)
SigRerun ==
  /\ fn = "signal" /\ sPc = "done" /\ sRun = 1
  /\ sPrev' = <<[out |-> sOut, calls |-> sCalls]>>
  /\ sRun' = 2
  /\ \E s \in 0..(RngMod - 1) : sRng' = s
  /\ sPc' = "start"
  /\ sChunks' = <<>> /\ sCi' = 0 /\ sProcessed' = <<>> /\ sCalls' = <<>>
  /\ sOut' = <<>>
  /\ UNCHANGED <<fn, seed, sData, sK, sNCond, sChunkSize>>
  /\ UNCHANGED <<varsMM, varsHSR>>

NextSignal == SigSplit \/ SigChunk \/ SigExit \/ SigStack \/ SigRerun

SpecSignal == InitSignal /\ [][NextSignal]_vars

\* ---------------------------------------------------- extract_mixing_matrix
\* str.startswith
StartsWith(name, prefix) ==
  /\ Len(prefix) <= Len(name)
  /\ SubSeq(name, 1, Len(prefix)) = prefix

\* [k for k in positions if flags[k]], order kept
RECURSIVE PositionsFrom(_, _)
PositionsFrom(flags, from) ==
  IF from > Len(flags) THEN <<>>
  ELSE (IF flags[from] THEN <<from>> ELSE <<>>) \o PositionsFrom(flags, from + 1)

PositionsWhere(flags) == PositionsFrom(flags, 1)

\* lines 26, 34-35: the columns whose name starts with conditions_list[0]
ControlCols(cols, conds) ==
  PositionsWhere([j \in 1..Len(cols) |-> StartsWith(cols[j], conds[1])])

\* line 36: the columns not in control_cols
TreatmentCols(cols, conds) ==
  PositionsWhere([j \in 1..Len(cols) |-> ~StartsWith(cols[j], conds[1])])

\* lines 26-27: (row[control columns] > control_cov_threshold).any()
PassesFilterAtLeast(row, ccols, thr) ==
  \E q \in 1..Len(ccols) : row[ccols[q]] >= thr
PassesFilter(row, ccols, thr) ==
  \E q \in 1..Len(ccols) : row[ccols[q]] > thr

\* lines 26-27: dsel, as the row positions kept, in data order
Dsel(data, cols, conds, thr) ==
  PositionsWhere([r \in 1..Len(data) |->
                    PassesFilter(data[r], ControlCols(cols, conds), thr)])

\* line 28: DataFrame.sample(n, random_state=seed) raises ValueError when
\* n exceeds the population (replace=False)
SampleNeverRaises(n, population) == FALSE
SampleRaises(n, population) == n > population

\* line 28: the n positions drawn without replacement.  pandas permutes
\* with RandomState(seed); the permutation is a function of (seed, len),
\* here the rotation by seed
Sample(dsel, n, sd) ==
  IF dsel = <<>> THEN <<>>
  ELSE [k \in 1..n |-> dsel[((sd + k - 1) % Len(dsel)) + 1]]

RECURSIVE SumSeq(_)
SumSeq(q) == IF q = <<>> THEN 0 ELSE Head(q) + SumSeq(Tail(q))

\* line 57: [conditions_counts_ref[c] for c in conditions_list]
NReplicates(conds, counts) == [i \in 1..Len(conds) |-> counts[conds[i]]]

\* line 64: ix = n_control_replicates
StartIxZero(nControl) == 0
StartIx(nControl) == nControl

\* line 74: ix += c
NextIx(ix, c) == ix + c

\* entries of the mixing matrix: the zero np.zeros wrote, a background
\* coefficient fitted for a sample, a specific coefficient of a condition
\* fitted from a column of specific_data_mat
Zero == [kind |-> "zero", cond |-> <<>>, sample |-> <<>>, bg |-> <<>>]
BgEntry(sample) == [kind |-> "bg", cond |-> <<>>, sample |-> sample, bg |-> <<>>]
SpecEntry(cond, col) ==
  [kind |-> "spec", cond |-> cond, sample |-> col.data, bg |-> col.bg]

\* line 72: mixing_matrix[i+1, ix:ix+c] = H_spec
AssignSlice(row, ix, c, hspec) ==
  [j \in 1..Len(row) |->
     IF ix < j /\ j <= ix + c /\ j - ix <= Len(hspec) THEN hspec[j - ix] ELSE row[j]]

c1 == <<"c", "1">>
c2 == <<"c", "2">>
a1 == <<"a", "1">>
a2 == <<"a", "2">>
b1 == <<"b", "1">>
cx1 == <<"c", "x", "1">>
LabC == <<"c">>
LabA == <<"a">>
LabB == <<"b">>
LabCX == <<"c", "x">>

Counts2(l1, n1, l2, n2) == [l \in {l1, l2} |-> IF l = l1 THEN n1 ELSE n2]
Counts3(l1, n1, l2, n2, l3, n3) ==
  [l \in {l1, l2, l3} |-> IF l = l1 THEN n1 ELSE IF l = l2 THEN n2 ELSE n3]

\* the column layouts and condition tables the functions are run on: the
\* first four agree with each other, the others disagree in one way each
Layouts ==
  { [cols |-> <<c1, a1>>,     conds |-> <<LabC, LabA>>, counts |-> Counts2(LabC, 1, LabA, 1)],
    [cols |-> <<c1, c2, a1>>, conds |-> <<LabC, LabA>>, counts |-> Counts2(LabC, 2, LabA, 1)],
    [cols |-> <<c1, a1, a2>>, conds |-> <<LabC, LabA>>, counts |-> Counts2(LabC, 1, LabA, 2)],
    [cols |-> <<c1, a1, b1>>, conds |-> <<LabC, LabA, LabB>>,
     counts |-> Counts3(LabC, 1, LabA, 1, LabB, 1)],
    \* as many columns as the counts say, one control column too many
    [cols |-> <<c1, c2, a1>>, conds |-> <<LabC, LabA>>, counts |-> Counts2(LabC, 1, LabA, 2)],
    \* fewer columns than the counts say
    [cols |-> <<c1, a1>>,     conds |-> <<LabC, LabA>>, counts |-> Counts2(LabC, 1, LabA, 2)],
    \* more columns than the counts say
    [cols |-> <<c1, a1, a2>>, conds |-> <<LabC, LabA>>, counts |-> Counts2(LabC, 1, LabA, 1)],
    \* the control column is not the first column
    [cols |-> <<a1, c1>>,     conds |-> <<LabC, LabA>>, counts |-> Counts2(LabC, 1, LabA, 1)],
    \* the treatment columns are not in conditions_list order
    [cols |-> <<c1, b1, a1>>, conds |-> <<LabC, LabA, LabB>>,
     counts |-> Counts3(LabC, 1, LabA, 1, LabB, 1)],
    \* a treatment label that starts with the control label
    [cols |-> <<c1, cx1>>,    conds |-> <<LabC, LabCX>>, counts |-> Counts2(LabC, 1, LabCX, 1)] }

\* rows of a coverage matrix with nc columns: coverage 1 everywhere,
\* coverage 2 everywhere, coverage 2 in one column and 0 in the others
RowPatterns(nc) ==
  {[j \in 1..nc |-> 1], [j \in 1..nc |-> 2]}
    \cup {[j \in 1..nc |-> IF j = p THEN 2 ELSE 0] : p \in 1..nc}

InitMM ==
  /\ fn = "mm"
  /\ seed \in Seeds
  /\ \E lay \in Layouts :
       /\ mCols = lay.cols /\ mConds = lay.conds /\ mCounts = lay.counts
       /\ \E n \in 1..MaxTrainRows : mData \in SeqsOver(RowPatterns(Len(lay.cols)), n)
  /\ mThreshold \in Thresholds
  /\ mNTrain \in 1..MaxTrainRows
  /\ mPc = "start" /\ mErr = "none"
  /\ mTrain = <<>> /\ mCalls = <<>> /\ mCoefs = <<>> /\ mSpecific = <<>>
  /\ mMatrix = <<>> /\ mIx = 0 /\ mI = 0
  /\ IdleSignal /\ IdleHSR

\* lines 26-28: filter on control coverage, then sample n_train_bins rows
MMSample ==
  /\ fn = "mm" /\ mPc = "start"
  /\ LET dsel == Dsel(mData, mCols, mConds, mThreshold)
     IN  IF SampleRaises(mNTrain, Len(dsel))
         THEN mPc' = "error" /\ mErr' = "sample" /\ mTrain' = <<>>
         ELSE /\ mPc' = "fit_control" /\ mErr' = "none"
              /\ mTrain' = LET drawn == Sample(dsel, mNTrain, seed)
                           IN  [k \in 1..Len(drawn) |->
                                  [idx |-> drawn[k], row |-> mData[drawn[k]]]]
  /\ UNCHANGED <<fn, seed, mCols, mData, mConds, mCounts, mThreshold, mNTrain,
                 mCalls, mCoefs, mSpecific, mMatrix, mIx, mI>>
  /\ UNCHANGED <<varsSig, varsHSR>>

\* lines 32-38: rank-1 NMF of the control columns of train_data
MMFitControl ==
  /\ fn = "mm" /\ mPc = "fit_control"
  /\ LET cc == ControlCols(mCols, mConds)
     IN  /\ mCalls' = Append(mCalls, [fit |-> "control", cols |-> [q \in 1..Len(cc) |-> mCols[cc[q]]]])
         /\ IF cc = <<>>
            THEN mPc' = "error" /\ mErr' = "fit_control" /\ mCoefs' = <<>>
            ELSE /\ mPc' = "fit_treat" /\ mErr' = "none"
                 \* H_unspec: one coefficient per control column
                 /\ mCoefs' = [q \in 1..Len(cc) |-> mCols[cc[q]]]
  /\ UNCHANGED <<fn, seed, mCols, mData, mConds, mCounts, mThreshold, mNTrain,
                 mTrain, mSpecific, mMatrix, mIx, mI>>
  /\ UNCHANGED <<varsSig, varsHSR>>

\* lines 42-53: background coefficients of the treatment columns with
\* W_unspec held fixed, the concatenation, the clipped subtraction
MMFitTreat ==
  /\ fn = "mm" /\ mPc = "fit_treat"
  /\ LET tc == TreatmentCols(mCols, mConds)
         coefs == mCoefs \o [q \in 1..Len(tc) |-> mCols[tc[q]]]
     IN  /\ mCalls' = Append(mCalls, [fit |-> "treat", cols |-> [q \in 1..Len(tc) |-> mCols[tc[q]]]])
         /\ IF tc = <<>>
            THEN mPc' = "error" /\ mErr' = "fit_treat" /\ UNCHANGED <<mCoefs, mSpecific>>
            ELSE /\ mPc' = "assemble" /\ mErr' = "none"
                 /\ mCoefs' = coefs
                 \* train_data.values - W_unspec.dot(H_unspec_coefs): column j
                 \* of the data meets entry j of the coefficient row
                 /\ mSpecific' = [j \in 1..Len(mCols) |-> [data |-> mCols[j], bg |-> coefs[j]]]
  /\ UNCHANGED <<fn, seed, mCols, mData, mConds, mCounts, mThreshold, mNTrain,
                 mTrain, mMatrix, mIx, mI>>
  /\ UNCHANGED <<varsSig, varsHSR>>

\* lines 56-64: the zero matrix and its background row; the assignment
\* raises when the row (of two coefficients or more) is not
\* sum(n_replicates) long
MMAssemble ==
  /\ fn = "mm" /\ mPc = "assemble"
  /\ LET nrep == NReplicates(mConds, mCounts)
         width == SumSeq(nrep)
     IN  IF width # Len(mCoefs)
         THEN mPc' = "error" /\ mErr' = "assemble" /\ UNCHANGED <<mMatrix, mIx, mI>>
         ELSE /\ mPc' = "loop" /\ mErr' = "none"
              /\ mMatrix' = [r \in 1..Len(mConds) |->
                   [j \in 1..width |->
                      IF r = 1 THEN BgEntry(mCoefs[j]) ELSE Zero]]
              /\ mIx' = StartIx(nrep[1])
              /\ mI' = 0
  /\ UNCHANGED <<fn, seed, mCols, mData, mConds, mCounts, mThreshold, mNTrain,
                 mTrain, mCalls, mCoefs, mSpecific>>
  /\ UNCHANGED <<varsSig, varsHSR>>

\* lines 65-74: one treatment condition
MMLoop ==
  /\ fn = "mm" /\ mPc = "loop"
  /\ mI < Len(mConds) - 1
  /\ LET c == NReplicates(mConds, mCounts)[mI + 2]
         block == PySlice(mSpecific, mIx, mIx + c)
         hspec == [q \in 1..Len(block) |-> SpecEntry(mConds[mI + 2], block[q])]
     IN  /\ mCalls' = Append(mCalls, [fit |-> "specific", cols |-> [q \in 1..Len(block) |-> block[q].data]])
         /\ IF block = <<>>
            THEN mPc' = "error" /\ mErr' = "fit_specific" /\ UNCHANGED <<mMatrix, mIx, mI>>
            ELSE /\ mErr' = "none" /\ mPc' = "loop"
                 /\ mMatrix' = [mMatrix EXCEPT ![mI + 2] = AssignSlice(@, mIx, c, hspec)]
                 /\ mIx' = NextIx(mIx, c)
                 /\ mI' = mI + 1
  /\ UNCHANGED <<fn, seed, mCols, mData, mConds, mCounts, mThreshold, mNTrain,
                 mTrain, mCoefs, mSpecific>>
  /\ UNCHANGED <<varsSig, varsHSR>>

\* lines 75-77: the labelled frame; pandas raises when the number of
\* column labels differs from the width of the matrix
MMReturn ==
  /\ fn = "mm" /\ mPc = "loop"
  /\ mI = Len(mConds) - 1
  /\ IF Len(mMatrix[1]) # Len(mCols)
     THEN mPc' = "error" /\ mErr' = "frame"
     ELSE mPc' = "returned" /\ mErr' = "none"
  /\ UNCHANGED <<fn, seed, mCols, mData, mConds, mCounts, mThreshold, mNTrain,
                 mTrain, mCalls, mCoefs, mSpecific, mMatrix, mIx, mI>>
  /\ UNCHANGED <<varsSig, varsHSR>>

NextMM == MMSample \/ MMFitControl \/ MMFitTreat \/ MMAssemble \/ MMLoop \/ MMReturn

SpecMM == InitMM /\ [][NextMM]_vars

\* ------------------------------------ extract_mixing_matrix_shared_unspecific
\* The function has the arguments of extract_mixing_matrix and is run on
\* the same inputs.
InitShared ==
  /\ fn = "mm_shared"
  /\ seed \in Seeds
  /\ \E lay \in Layouts :
       /\ mCols = lay.cols /\ mConds = lay.conds /\ mCounts = lay.counts
       /\ \E n \in 1..MaxTrainRows : mData \in SeqsOver(RowPatterns(Len(lay.cols)), n)
  /\ mThreshold \in Thresholds
  /\ mNTrain \in 1..MaxTrainRows
  /\ mPc = "start" /\ mErr = "none"
  /\ mTrain = <<>> /\ mCalls = <<>> /\ mCoefs = <<>> /\ mSpecific = <<>>
  /\ mMatrix = <<>> /\ mIx = 0 /\ mI = 0
  /\ IdleSignal /\ IdleHSR

\* lines 101-105: filter on control coverage, then sample n_train_bins rows
SharedSample ==
  /\ fn = "mm_shared" /\ mPc = "start"
  /\ LET dsel == Dsel(mData, mCols, mConds, mThreshold)
     IN  IF SampleRaises(mNTrain, Len(dsel))
         THEN mPc' = "error" /\ mErr' = "sample" /\ mTrain' = <<>>
         ELSE /\ mPc' = "fit_control" /\ mErr' = "none"
              /\ mTrain' = LET drawn == Sample(dsel, mNTrain, seed)
                           IN  [k \in 1..Len(drawn) |->
                                  [idx |-> drawn[k], row |-> mData[drawn[k]]]]
  /\ UNCHANGED <<fn, seed, mCols, mData, mConds, mCounts, mThreshold, mNTrain,
                 mCalls, mCoefs, mSpecific, mMatrix, mIx, mI>>
  /\ UNCHANGED <<varsSig, varsHSR>>

\* lines 108-114: rank-1 NMF of the control columns of train_data; W_unspec
\* and H_unspec are locals that nothing reads afterwards
SharedFitControl ==
  /\ fn = "mm_shared" /\ mPc = "fit_control"
  /\ LET cc == ControlCols(mCols, mConds)
     IN  /\ mCalls' = Append(mCalls, [fit |-> "control", cols |-> [q \in 1..Len(cc) |-> mCols[cc[q]]]])
         /\ IF cc = <<>>
            THEN mPc' = "error" /\ mErr' = "fit_control" /\ mCoefs' = <<>>
            ELSE /\ mPc' = "return" /\ mErr' = "none"
                 /\ mCoefs' = [q \in 1..Len(cc) |-> mCols[cc[q]]]
  /\ UNCHANGED <<fn, seed, mCols, mData, mConds, mCounts, mThreshold, mNTrain,
                 mTrain, mSpecific, mMatrix, mIx, mI>>
  /\ UNCHANGED <<varsSig, varsHSR>>

\* line 154: return mm.  Lines 121-153, which built mixing_matrix and mm,
\* are comments; mm is assigned nowhere in the function or the module, so
\* the name lookup raises NameError and no matrix is returned
SharedReturn ==
  /\ fn = "mm_shared" /\ mPc = "return"
  /\ mPc' = "error" /\ mErr' = "NameError"
  /\ UNCHANGED <<fn, seed, mCols, mData, mConds, mCounts, mThreshold, mNTrain,
                 mTrain, mCalls, mCoefs, mSpecific, mMatrix, mIx, mI>>
  /\ UNCHANGED <<varsSig, varsHSR>>

NextShared == SharedSample \/ SharedFitControl \/ SharedReturn

SpecShared == InitShared /\ [][NextShared]_vars

\* ------------------------------------------ run_HSR and run_HSR_replicates
\* Signal values are counted in halves (the value v stands for v/2), so
\* eps = 1e-20 lies strictly between the values 0 and 1.  Logarithms are
\* counted in hundredths.
LnEps == -4605      \* np.log(1e-20)
Log05 == -69        \* np.log(0.5)
NegInf == -50000    \* np.log(0)

\* np.log of the value v (in halves)
Ln(v) ==
  CASE v <= 0 -> NegInf
    [] v = 1 -> -69
    [] v = 2 -> 0
    [] v = 3 -> 41
    [] v = 4 -> 69
    [] v = 5 -> 92
    [] v = 6 -> 110
    [] v = 7 -> 125
    [] v >= 8 -> 139

\* np.maximum(eps, x) and Series.clip(eps, None): eps when x < eps
FloorAtEps(x) ==
  IF x < 1 THEN [isEps |-> TRUE, v |-> 0] ELSE [isEps |-> FALSE, v |-> x]

LogOf(a) == IF a.isEps THEN LnEps ELSE Ln(a.v)

\* lines 201-202, 208-209, 246-247, 261-262: floor, then np.log
Transf(col) ==
  [b \in 1..Len(col) |-> [arg |-> FloorAtEps(col[b]), log |-> LogOf(FloorAtEps(col[b]))]]

Logs(transf) == [b \in 1..Len(transf) |-> transf[b].log]

\* line 261: sample_data - tissue_coef*tissue_signal
SpecificSignal(sample, coef, tissue) ==
  [b \in 1..Len(sample) |-> sample[b] - coef * tissue[b]]

\* treatment_transf of an iteration: run_HSR floors the pooled column,
\* run_HSR_replicates floors the replicate's specific signal
TreatTransf(variant, raw, coef, tissue) ==
  IF variant = "pooled" THEN Transf(raw)
  ELSE Transf(SpecificSignal(raw, coef, tissue))

\* series[bl_mask]: the bins kept, in order
MaskedPositionsAll(mask) == [k \in 1..Len(mask) |-> k]
MaskedPositions(mask) == PositionsWhere(mask)

RECURSIVE Insert(_, _)
Insert(x, q) ==
  IF q = <<>> THEN <<x>>
  ELSE IF x <= Head(q) THEN <<x>> \o q
  ELSE <<Head(q)>> \o Insert(x, Tail(q))

RECURSIVE Sorted(_)
Sorted(q) == IF q = <<>> THEN <<>> ELSE Insert(Head(q), Sorted(Tail(q)))

\* twice np.median of a non-empty sequence
Median2(vals) ==
  LET q == Sorted(vals)
      n == Len(q)
  IN  IF n % 2 = 1 THEN 2 * q[(n + 1) \div 2] ELSE q[n \div 2] + q[n \div 2 + 1]

\* lines 212-215 and 266-269: the medians over the mask-true bins, fit_ixs
\* (positions in the masked series, here from 1), and the two arguments
\* of LinearRegression.fit with the bin each value is taken from.
\*   control_transf[bl_mask].values[fit_ixs]  selects by position;
\*   treatment_transf[bl_mask][fit_ixs]       selects by position when the
\*     index is not an integer index, and by label when it is: position p
\*     (from 0) is then looked up as the label p, which is bin p + 1, and
\*     pandas raises KeyError when the mask removed that bin.
\* An empty selection makes LinearRegression.fit raise ValueError.
FitOf(ctrlLog, treatLog, mask, index) ==
  LET mpos == MaskedPositions(mask)
      n == Len(mpos)
  IN  IF n = 0 THEN [NoFit EXCEPT !.err = "ValueError"]
      ELSE
        LET cm == [k \in 1..n |-> ctrlLog[mpos[k]]]
            tm == [k \in 1..n |-> treatLog[mpos[k]]]
            med2C == Median2(cm)
            med2T == Median2(tm)
            fitIxs == PositionsWhere([k \in 1..n |-> 2 * cm[k] > med2C /\ 2 * tm[k] > med2T])
            xBins == [q \in 1..Len(fitIxs) |-> mpos[fitIxs[q]]]
            X == [q \in 1..Len(fitIxs) |-> ctrlLog[xBins[q]]]
            missing == index = "int" /\ \E q \in 1..Len(fitIxs) : ~mask[fitIxs[q]]
            yBins == IF index = "int" THEN fitIxs ELSE xBins
            base == [err |-> "none", med2C |-> med2C, med2T |-> med2T, fitIxs |-> fitIxs,
                     xBins |-> xBins, yBins |-> <<>>, X |-> X, y |-> <<>>]
        IN  IF missing THEN [base EXCEPT !.err = "KeyError"]
            ELSE IF fitIxs = <<>> THEN [base EXCEPT !.err = "ValueError"]
            ELSE [base EXCEPT !.yBins = yBins,
                              !.y = [q \in 1..Len(fitIxs) |-> treatLog[yBins[q]]]]

RECURSIVE SumProducts(_, _)
SumProducts(u, v) ==
  IF u = <<>> THEN 0 ELSE Head(u) * Head(v) + SumProducts(Tail(u), Tail(v))

\* LinearRegression(fit_intercept=False).fit(X, y).coef_ = sum(xy)/sum(xx),
\* the least-norm solution 0 when every x is 0; kept as a fraction
Slope(X, y) ==
  LET den == SumProducts(X, X)
  IN  IF den = 0 THEN [num |-> 0, den |-> 1] ELSE [num |-> SumProducts(X, y), den |-> den]

\* lines 217-218 and 271-272: np.maximum(prediction, np.log(0.5)), on
\* numerators over the denominator den > 0
ClampLogMissing(v, den) == v
ClampLog(v, den) == IF v < Log05 * den THEN Log05 * den ELSE v

\* lines 217-223 and 271-277: log_pred for every bin (pred = exp of it)
\* and treatment_transf - log_pred (track = exp of it), as numerators
Emit(ctrlLog, treatLog, fit) ==
  LET beta == Slope(fit.X, fit.y)
      lp == [b \in 1..Len(ctrlLog) |-> ClampLog(beta.num * ctrlLog[b], beta.den)]
  IN  [den |-> beta.den, num |-> beta.num, logPred |-> lp,
       logTrack |-> [b \in 1..Len(ctrlLog) |-> treatLog[b] * beta.den - lp[b]]]

\* lines 222-223 and 276-277
OutColumns(name) == <<name \o <<" HSR Value">>, name \o <<" fit">>>>

CtrlVals == {0, 1, 4}
TreatVals == {0, 4}

\* the column layouts run_HSR_replicates is run on, with
\* conditions_counts_ref[control_condition] and row 0 of mmat
ReplicateLayouts ==
  { [cols |-> <<c1, a1, a2>>, nControl |-> 1, bg |-> <<1, 0, 1>>],
    \* the control column is not the first column
    [cols |-> <<a1, c1>>,     nControl |-> 1, bg |-> <<0, 1>>],
    \* one control column fewer than the counts say
    [cols |-> <<c1, a1, a2>>, nControl |-> 2, bg |-> <<1, 1, 0>>] }

\* line 251: the columns of replicates that do not start with the control
\* label; run_HSR: conditions_list[1:]
TreatmentNames ==
  IF hVariant = "pooled" THEN hCols
  ELSE LET tc == TreatmentCols(hCols, <<LabC>>)
       IN  [q \in 1..Len(tc) |-> hCols[tc[q]]]

InitHSR ==
  /\ fn = "hsr"
  /\ seed = 0
  /\ hVariant \in {"pooled", "replicates"}
  /\ hIndex \in {"int", "labels"}
  /\ \E n \in 1..MaxBins :
       /\ hCtrl \in SeqsOver(CtrlVals, n)
       /\ hMask \in SeqsOver(BOOLEAN, n)
  /\ IF hVariant = "pooled"
     THEN hCols \in {<<LabA>>, <<LabA, LabB>>} /\ hNControl = 0 /\ hBg = <<>>
     ELSE \E lay \in ReplicateLayouts :
            hCols = lay.cols /\ hNControl = lay.nControl /\ hBg = lay.bg
  /\ hPc = "start" /\ hI = 0
  /\ hCtrlT = <<>> /\ hCur = NoCur /\ hTreatT = <<>> /\ hFit = NoFit
  /\ hOut = NoOut /\ hOutCols = <<>>
  /\ IdleSignal /\ IdleMM

\* lines 198-202 and 241-253: control_transf
HsrStart ==
  /\ fn = "hsr" /\ hPc = "start"
  /\ hCtrlT' = Transf(hCtrl)
  /\ hPc' = "loop" /\ hI' = 0
  /\ UNCHANGED <<fn, seed, hVariant, hIndex, hCtrl, hMask, hCols, hNControl, hBg,
                 hCur, hTreatT, hFit, hOut, hOutCols>>
  /\ UNCHANGED <<varsSig, varsMM>>

\* the rest of an iteration once the treatment column is known
Iterate(name, raw, coefOf, coef) ==
  LET tt == TreatTransf(hVariant, raw, coef, hCtrl)
      fit == FitOf(Logs(hCtrlT), Logs(tt), hMask, hIndex)
  IN  /\ hCur' = [name |-> name, raw |-> raw, coefOf |-> coefOf, coef |-> coef]
      /\ hTreatT' = tt
      /\ hFit' = fit
      /\ IF fit.err # "none"
         THEN hPc' = "error" /\ hOut' = NoOut /\ UNCHANGED hOutCols
         ELSE /\ hPc' = "emitted"
              /\ hOut' = Emit(Logs(hCtrlT), Logs(tt), fit)
              /\ hOutCols' = hOutCols \o OutColumns(name)

\* run_HSR lines 206-223: one treatment condition; its column of wmat is
\* read here, once
HsrIterPooled ==
  /\ fn = "hsr" /\ hVariant = "pooled" /\ hPc = "loop"
  /\ hI < Len(TreatmentNames)
  /\ \E raw \in SeqsOver(TreatVals, Len(hCtrl)) :
       Iterate(TreatmentNames[hI + 1], raw, <<>>, 0)
  /\ UNCHANGED <<fn, seed, hVariant, hIndex, hCtrl, hMask, hCols, hNControl, hBg, hI, hCtrlT>>
  /\ UNCHANGED <<varsSig, varsMM>>

\* line 259: the position in mmat of the coefficient read for the i-th
\* treatment column (from 1)
CoefPosition(i, nControl) == i + nControl + 1

\* run_HSR_replicates lines 254-277: one treatment replicate; its column
\* of replicates is read here, once.  mmat has the
\* columns of replicates; iloc raises IndexError past the last column
HsrIterReplicate ==
  /\ fn = "hsr" /\ hVariant = "replicates" /\ hPc = "loop"
  /\ hI < Len(TreatmentNames)
  /\ IF CoefPosition(hI, hNControl) > Len(hCols)
     THEN /\ hPc' = "error"
          /\ hFit' = [NoFit EXCEPT !.err = "IndexError"]
          /\ hCur' = [NoCur EXCEPT !.name = TreatmentNames[hI + 1]]
          /\ UNCHANGED <<hTreatT, hOut, hOutCols>>
     ELSE \E raw \in SeqsOver(TreatVals, Len(hCtrl)) :
            Iterate(TreatmentNames[hI + 1], raw, hCols[CoefPosition(hI, hNControl)],
                    hBg[CoefPosition(hI, hNControl)])
  /\ UNCHANGED <<fn, seed, hVariant, hIndex, hCtrl, hMask, hCols, hNControl, hBg, hI, hCtrlT>>
  /\ UNCHANGED <<varsSig, varsMM>>

\* the for loop moves to the next treatment
HsrNext ==
  /\ fn = "hsr" /\ hPc = "emitted"
  /\ hI' = hI + 1
  /\ hPc' = "loop"
  /\ hCur' = NoCur /\ hTreatT' = <<>> /\ hFit' = NoFit /\ hOut' = NoOut
  /\ UNCHANGED <<fn, seed, hVariant, hIndex, hCtrl, hMask, hCols, hNControl, hBg,
                 hCtrlT, hOutCols>>
  /\ UNCHANGED <<varsSig, varsMM>>

\* lines 225 and 280: return out_df
HsrReturn ==
  /\ fn = "hsr" /\ hPc = "loop"
  /\ hI = Len(TreatmentNames)
  /\ hPc' = "done"
  /\ UNCHANGED <<fn, seed, hVariant, hIndex, hCtrl, hMask, hCols, hNControl, hBg, hI,
                 hCtrlT, hCur, hTreatT, hFit, hOut, hOutCols>>
  /\ UNCHANGED <<varsSig, varsMM>>

NextHSR == HsrStart \/ HsrIterPooled \/ HsrIterReplicate \/ HsrNext \/ HsrReturn

SpecHSR == InitHSR /\ [][NextHSR]_vars

\* ------------------------------------------------------------ all of them
Init == InitSignal \/ InitMM \/ InitShared \/ InitHSR
Next == NextSignal \/ NextMM \/ NextShared \/ NextHSR
Spec == Init /\ [][Next]_vars

\* ======================================================= properties checked

\* C1: extract_signal splits the N >= 1 rows into contiguous chunks of at
\* most chunk_size rows, hands them to the factorization in ascending row
\* order, and returns exactly N rows, row k fitted from input row k, for
\* every chunk_size (larger than N and dividing N included).
C1_RowOrderPreserved ==
  fn = "signal" =>
    /\ sPc # "start" =>
         /\ Flatten(sChunks) = [k \in 1..Len(sData) |-> k]
         /\ \A i \in 1..Len(sChunks) : Len(sChunks[i]) <= sChunkSize
    /\ \A i \in 1..Len(sCalls) :
         /\ sCalls[i].ck = sChunks[i]
         /\ \A j \in 1..Len(sProcessed[i]) : sProcessed[i][j].src = sChunks[i][j]
    /\ (Len(sData) >= 1 /\ sK = sNCond) => sPc # "error"
    /\ sPc = "done" =>
         /\ Len(sOut) = Len(sData)
         /\ \A k \in 1..Len(sOut) : sOut[k].src = k /\ sOut[k].x = sData[k]

\* C1 witness: a run that returned, N twice the chunk size, two chunks fitted
C1_Witness ==
  /\ fn = "signal" /\ sPc = "done" /\ sRun = 1
  /\ Len(sData) = 2 * sChunkSize
  /\ Len(sCalls) = 2 /\ sChunkSize = 2
  /\ sData[1] # sData[2]

\* C2: no zero-row chunk is passed to the factorization or appended to
\* processed_W, an empty chunk occurs only as the last one, and the loop
\* leaves no non-empty chunk behind when it stops.
C2_EmptyChunkSkipped ==
  fn = "signal" =>
    /\ \A i \in 1..Len(sCalls) : Len(sCalls[i].ck) >= 1 /\ Len(sCalls[i].W) >= 1
    /\ \A i \in 1..Len(sProcessed) : Len(sProcessed[i]) >= 1
    /\ \A i \in 1..Len(sChunks) : sChunks[i] = <<>> => i = Len(sChunks)
    /\ sPc \in {"stack", "done", "error"} =>
         /\ sCi <= Len(sChunks)
         /\ \A i \in sCi..Len(sChunks) : sChunks[i] = <<>>

\* C2 witness: N an exact multiple of chunk_size, the loop stopped at the
\* empty trailing chunk after fitting every other chunk
C2_Witness ==
  /\ fn = "signal" /\ sPc = "done"
  /\ Len(sData) = 3 * sChunkSize
  /\ sCi = 4 /\ sChunks[sCi] = <<>>
  /\ Len(sProcessed) = 3

\* C7: a repeated call on the same arguments and seed initialises the same
\* row-side factors and returns the same signal matrix.
C7_SeedDeterminesSignal ==
  (fn = "signal" /\ sRun = 2 /\ sPc = "done") =>
    /\ sCalls = sPrev[1].calls
    /\ sOut = sPrev[1].out

\* the number of replicates the counts give to the conditions before the
\* i-th treatment condition (the control included)
ColumnsBefore(i) == SumSeq(SubSeq(NReplicates(mConds, mCounts), 1, i))

\* column j lies in the slice of the i-th treatment condition
InSliceOf(i, j) ==
  /\ ColumnsBefore(i) < j
  /\ j <= ColumnsBefore(i) + NReplicates(mConds, mCounts)[i + 1]

\* C3: the returned mixing matrix has len(conditions_list) rows and
\* sum-of-counts columns; the row of the i-th treatment condition is zero
\* outside the slice that starts after n_control plus the counts of the
\* earlier treatment conditions and is as wide as its own count, and holds
\* that condition's coefficients inside it; the slices are disjoint and
\* cover the columns after the control columns.
C3_MixingMatrixShape ==
  (fn = "mm" /\ mPc = "returned") =>
    LET nrep == NReplicates(mConds, mCounts)
        width == SumSeq(nrep)
        treatments == 1..(Len(mConds) - 1)
    IN  /\ Len(mMatrix) = Len(mConds)
        /\ \A r \in 1..Len(mMatrix) : Len(mMatrix[r]) = width
        /\ \A i \in treatments : \A j \in 1..width :
             IF InSliceOf(i, j)
             THEN mMatrix[i + 1][j].kind = "spec" /\ mMatrix[i + 1][j].cond = mConds[i + 1]
             ELSE mMatrix[i + 1][j] = Zero
        /\ \A j \in 1..width :
             Cardinality({i \in treatments : InSliceOf(i, j)}) = (IF j > nrep[1] THEN 1 ELSE 0)

\* C3 witness: a returned matrix of three conditions
C3_Witness ==
  /\ fn = "mm" /\ mPc = "returned"
  /\ Len(mConds) = 3
  /\ mMatrix[3][3].kind = "spec"

\* C4: with fewer than n_train_bins rows passing the control-coverage
\* filter the function raises at the sampling, before any factorization,
\* with no training set and no mixing matrix.
C4_TooFewBinsAborts ==
  (fn = "mm" /\ Len(Dsel(mData, mCols, mConds, mThreshold)) < mNTrain) =>
    /\ mPc \in {"start", "error"}
    /\ mPc = "error" => mErr = "sample"
    /\ mCalls = <<>> /\ mTrain = <<>> /\ mMatrix = <<>>

\* C4 witness: some rows qualify, fewer than asked for, and the call raised
C4_Witness ==
  /\ fn = "mm" /\ mPc = "error" /\ mErr = "sample"
  /\ Len(Dsel(mData, mCols, mConds, mThreshold)) = 1
  /\ mNTrain = 2

\* the counts and the column names disagree
LayoutMismatch ==
  \/ SumSeq(NReplicates(mConds, mCounts)) # Len(mCols)
  \/ Len(ControlCols(mCols, mConds)) # mCounts[mConds[1]]

\* C5: when the counts disagree with the column layout, the function
\* aborts before any factorization call and returns nothing.
C5_MismatchAborts ==
  (fn = "mm" /\ LayoutMismatch) => (mCalls = <<>> /\ mPc # "returned")

\* C6: the training subset is exactly n_train_bins distinct rows of the
\* coverage matrix, each with a control column strictly above the
\* threshold, each with all its sample columns.
C6_TrainingSubset ==
  fn = "mm" =>
    /\ (mPc # "start" /\ mErr # "sample") => Len(mTrain) = mNTrain
    /\ \A k \in 1..Len(mTrain) :
         /\ mTrain[k].idx \in 1..Len(mData)
         /\ mTrain[k].row = mData[mTrain[k].idx]
         /\ Len(mTrain[k].row) = Len(mCols)
         /\ \E j \in 1..Len(mCols) :
              StartsWith(mCols[j], mConds[1]) /\ mTrain[k].row[j] > mThreshold
         /\ \A l \in 1..Len(mTrain) : l # k => mTrain[l].idx # mTrain[k].idx

\* C6 witness: two of three rows drawn, the third has control coverage
\* equal to the threshold and treatment coverage above it
C6_Witness ==
  /\ fn = "mm" /\ mPc = "returned"
  /\ Len(mData) = 3 /\ mNTrain = 2 /\ Len(mTrain) = 2
  /\ \E r \in 1..3 :
       /\ \A k \in 1..2 : mTrain[k].idx # r
       /\ \A j \in 1..Len(mCols) : StartsWith(mCols[j], mConds[1]) => mData[r][j] <= mThreshold
       /\ \E j \in 1..Len(mCols) : mData[r][j] > mThreshold

\* a column with the values of its mask-false bins replaced by 0
MaskedOut(col) == [b \in 1..Len(col) |-> IF hMask[b] THEN col[b] ELSE 0]

\* an iteration has computed its fit inputs (or failed doing so)
FitComputed ==
  /\ fn = "hsr" /\ hPc \in {"emitted", "error"} /\ hFit.err # "IndexError"

\* C8: the medians, the bins selected for the fit and the (control,
\* treatment) values handed to the regression do not depend on the signal
\* values of mask-false bins: they equal what the same input with every
\* mask-false value replaced by 0 gives, so any two inputs that differ
\* only in mask-false bins give the same.
C8_MaskedBinsIgnored ==
  FitComputed =>
    hFit = FitOf(Logs(Transf(MaskedOut(hCtrl))),
                 Logs(TreatTransf(hVariant, MaskedOut(hCur.raw), hCur.coef, MaskedOut(hCtrl))),
                 hMask, hIndex)

\* C8 witness: a fit was made while a mask-false bin holds the largest
\* control and treatment values, which would have moved the control median
C8_Witness ==
  /\ FitComputed /\ hPc = "emitted" /\ hFit.X # <<>>
  /\ \E b \in 1..Len(hMask) : ~hMask[b] /\ hCtrl[b] = 4 /\ hCur.raw[b] = 4
  /\ Median2(Logs(hCtrlT)) # hFit.med2C

\* the raw treatment value of bin b that is floored in this iteration
TreatRaw(b) ==
  IF hVariant = "pooled" THEN hCur.raw[b] ELSE hCur.raw[b] - hCur.coef * hCtrl[b]

\* C9: every raw value below eps enters the logarithm as eps; for every
\* bin the log-prediction is at least log(0.5), so the fitted baseline is
\* at least 0.5, and the normalized value is the floored treatment value
\* divided by that baseline.
C9_FloorAndClamp ==
  fn = "hsr" =>
    /\ \A b \in 1..Len(hCtrlT) :
         /\ hCtrlT[b].arg = (IF hCtrl[b] < 1 THEN [isEps |-> TRUE, v |-> 0]
                             ELSE [isEps |-> FALSE, v |-> hCtrl[b]])
         /\ hCtrlT[b].log >= LnEps
    /\ \A b \in 1..Len(hTreatT) :
         /\ hTreatT[b].arg = (IF TreatRaw(b) < 1 THEN [isEps |-> TRUE, v |-> 0]
                              ELSE [isEps |-> FALSE, v |-> TreatRaw(b)])
         /\ hTreatT[b].log >= LnEps
    /\ hPc = "emitted" =>
         /\ hOut.den > 0
         /\ Len(hOut.logPred) = Len(hCtrl) /\ Len(hOut.logTrack) = Len(hCtrl)
         /\ \A b \in 1..Len(hCtrl) :
              /\ hOut.logPred[b] >= Log05 * hOut.den
              /\ hOut.logTrack[b] = hTreatT[b].log * hOut.den - hOut.logPred[b]

\* C9 witness: values were emitted; a mask-false bin with control value 0
\* has its prediction raised to log(0.5), another bin keeps its own, and
\* a treatment value below eps was floored
C9_Witness ==
  /\ fn = "hsr" /\ hPc = "emitted"
  /\ \E b \in 1..Len(hCtrl) :
       /\ ~hMask[b] /\ hCtrl[b] = 0
       /\ hOut.num * hCtrlT[b].log < Log05 * hOut.den
       /\ hOut.logPred[b] = Log05 * hOut.den
  /\ \E b \in 1..Len(hCtrl) : hOut.logPred[b] > Log05 * hOut.den
  /\ \E b \in 1..Len(hCtrl) : TreatRaw(b) < 1 /\ hTreatT[b].log = LnEps

\* C10: the background coefficient that scales the control signal for a
\* treatment replicate is the entry of mmat's row 0 in that replicate's
\* own column.
C10_OwnCoefficient ==
  (fn = "hsr" /\ hVariant = "replicates" /\ hCur.coefOf # <<>>) =>
    hCur.coefOf = hCur.name

\* C11: when the double-median filter leaves one bin or none for the
\* regression, the iteration ends in an error (lines 212-218 and 266-272
\* issue no warning, so an error is the only way the caller is told) and
\* no track is emitted from the degenerate fit.
C11_DegenerateFitSurfaced ==
  (FitComputed /\ Len(hFit.fitIxs) <= 1) => hPc = "error"

\* the columns come condition by condition in conditions_list order, as
\* many per condition as the counts say, the control columns first
ColumnsInListOrder ==
  \A j \in 1..Len(mCols) : \E i \in 1..Len(mConds) :
    /\ ColumnsBefore(i - 1) < j /\ j <= ColumnsBefore(i)
    /\ StartsWith(mCols[j], mConds[i])

\* the arguments are valid: the counts agree with the column layout, the
\* columns are in conditions_list order and at least n_train_bins rows
\* pass the control-coverage filter
SharedValidInputs ==
  /\ ~LayoutMismatch
  /\ ColumnsInListOrder
  /\ ~SampleRaises(mNTrain, Len(Dsel(mData, mCols, mConds, mThreshold)))

\* C12: on valid arguments extract_mixing_matrix_shared_unspecific ends by
\* returning a mixing matrix, never by raising.
C12_SharedReturnsMatrix ==
  (fn = "mm_shared" /\ SharedValidInputs /\ mPc \in {"returned", "error"}) =>
    (mPc = "returned" /\ mMatrix # <<>>)

\* C13: the k-th control value and the k-th treatment value handed to the
\* regression are the values of one and the same bin, and that bin is
\* mask-true and lies above both medians; for every kind of bin index.
C13_SameBinPairs ==
  (FitComputed /\ hFit.err = "none") =>
    /\ Len(hFit.xBins) = Len(hFit.yBins)
    /\ \A q \in 1..Len(hFit.xBins) :
         LET b == hFit.xBins[q]
         IN  /\ hFit.yBins[q] = b
             /\ hMask[b]
             /\ hFit.X[q] = hCtrlT[b].log /\ 2 * hCtrlT[b].log > hFit.med2C
             /\ hFit.y[q] = hTreatT[b].log /\ 2 * hTreatT[b].log > hFit.med2T

\* C14: in the returned mixing matrix the background entry under sample
\* column j is the coefficient fitted for sample j, and the background
\* subtracted from column j of the training matrix used that sample's
\* coefficient; for every column order.
C14_BackgroundUnderOwnColumn ==
  (fn = "mm" /\ mPc = "returned") =>
    \A j \in 1..Len(mCols) :
      /\ mMatrix[1][j] = BgEntry(mCols[j])
      /\ mSpecific[j] = [data |-> mCols[j], bg |-> mCols[j]]

====
